---- MODULE Spec2Model ----
(***************************************************************************)
(* Model of loader_hub/file/image_blip2/base.py: ImageVisionLLMReader.     *)
(*                                                                         *)
(* The reader is one Python object.  __init__ and load_data are modelled   *)
(* as operators that execute the method body statement by statement on a   *)
(* frame (the locals, the events performed so far, the outcome); a         *)
(* statement that raises ends the frame and the remaining statements are   *)
(* skipped.  The external collaborators (module imports, PIL, img_2_b64,   *)
(* the BLIP2 processor and model) are inputs: which modules are installed, *)
(* whether a file opens and in which mode, which external call raises and  *)
(* what the model generates.                                               *)
(***************************************************************************)
EXTENDS Integers, Sequences, FiniteSets, TLC

VARIABLES installed, cuda, pc, self, atConstruction, ctor, modelDevice, ncalls, last

vars == <<installed, cuda, pc, self, atConstruction, ctor, modelDevice, ncalls, last>>

(***************************************************************************)
(* Bounds                                                                  *)
(***************************************************************************)
MaxCalls == 2

(***************************************************************************)
(* The environment                                                         *)
(***************************************************************************)
\* modules imported by the file at run time (lines 24, 30, 37, 44, 62, 64)
Modules == {"torch", "transformers", "sentencepiece", "PIL", "gpt_index"}

\* Python's None, for Optional values: None is <<>>, a value v is <<v>>
None == <<>>
Some(v) == <<v>>

\* the default of the prompt parameter, and another prompt a caller passes
DefaultPrompt == "Question: describe what you see in this image. Answer:"
Prompts == {DefaultPrompt, "Question: how many cats? Answer:"}

HubName == "Salesforce/blip2-opt-2.7b"

\* parser_config values a caller supplies
UserConfigs ==
    { [processor |-> "user_processor", model |-> "user_model",
       device |-> "cpu", dtype |-> "float32"],
      [processor |-> "user_processor", model |-> "user_model",
       device |-> "cuda", dtype |-> "float16"] }

\* the files load_data is called on: one that PIL cannot open, and one
\* image per PIL mode of interest
Files == {"notes.txt", "rgb.png", "gray.png", "palette.gif", "rgba.png"}

Openable(file) == file # "notes.txt"

FileMode(file) ==
    CASE file = "rgb.png" -> "RGB"
      [] file = "gray.png" -> "L"
      [] file = "palette.gif" -> "P"
      [] file = "rgba.png" -> "RGBA"
      [] OTHER -> "none"

\* the external calls of load_data that may raise, "none" for a call in
\* which no external call raises
FailPoints == {"none", "convert", "img_2_b64", "model.to", "processor",
               "inputs.to", "generate", "decode"}

SpecialTokens == {"</s>"}

\* what model.generate returns: a batch of token sequences
GenOutputs == { << <<"a", "cat", "</s>">> >>,
                << <<"</s>", "two", "dogs">>, <<"a", "cat">> >>,
                << <<"</s>">> >> }

\* the behaviour of the external collaborators during one load_data call:
\* the call that raises, if any, and what generate returns; the outputs
\* vary in the calls where nothing raises
Backends ==
    { [fails |-> "none", out |-> o] : o \in GenOutputs }
    \cup { [fails |-> p, out |-> << <<"a", "cat", "</s>">> >>] :
              p \in FailPoints \ {"none"} }

(***************************************************************************)
(* Python objects and frames                                               *)
(***************************************************************************)
\* an object without instance attributes
NoAttrs == [n \in {} |-> TRUE]

\* attributes the class and its base BaseReader provide to every instance:
\* the two methods of the class (lines 15, 60) and the reader interface of
\* llama_index's BaseReader (line 4), which has no parser_config
ClassAttrs == {"__init__", "load_data", "load_langchain_documents"}

\* attribute lookup on the reader instance
HasAttr(obj, name) == name \in DOMAIN obj \/ name \in ClassAttrs

SetAttr(obj, name, value) ==
    [n \in DOMAIN obj \cup {name} |-> IF n = name THEN value ELSE obj[n]]

Event(op, a, b) == [op |-> op, a |-> a, b |-> b]

Do(f, op, a, b) == [f EXCEPT !.events = Append(@, Event(op, a, b))]

Raise(f, err, msg) == [f EXCEPT !.status = "raised", !.error = err, !.msg = msg]

Running(f) == f.status = "running"

(***************************************************************************)
(* __init__  (lines 15-58)                                                 *)
(***************************************************************************)
\* the message of the ImportError raised for each module (lines 26-48),
\* written without its backquotes
ImportMessage(module) ==
    CASE module = "torch" ->
           "install pytorch to use the model: pip install torch"
      [] module = "transformers" ->
           "transformers is required for using BLIP2 model: pip install transformers"
      [] module = "sentencepiece" ->
           "sentencepiece is required for using BLIP2 model: pip install sentencepiece"
      [] module = "PIL" ->
           "PIL is required to read image files: pip install Pillow"
      [] OTHER -> "No module named"

\* the modules __init__ tries to import, in the order of the try blocks
CheckOrderSwapped == <<"torch", "sentencepiece", "transformers", "PIL">>
CheckOrder == <<"torch", "transformers", "sentencepiece", "PIL">>

\* try: import module / except ImportError: raise ImportError(message)
TryImport(f, module, inst) ==
    IF ~Running(f) THEN f
    ELSE LET g == Do(f, "import", module, "")
         IN  IF module \in inst THEN g
             ELSE Raise(g, "ImportError", ImportMessage(module))

\* line 22: if parser_config is None
NeedsDefaultAlways(parser_config) == TRUE
NeedsDefault(parser_config) == parser_config = None

\* lines 49-55: device and dtype from torch.cuda.is_available(), processor
\* and model from the hub, the four of them put in a dict
BuildDefault(f, cudaAvail) ==
    IF ~Running(f) THEN f
    ELSE LET device == IF cudaAvail THEN "cuda" ELSE "cpu"
             dtype == IF cudaAvail THEN "float16" ELSE "float32"
             g1 == Do(f, "torch.cuda.is_available", "", "")
             g2 == Do(g1, "torch.cuda.is_available", "", "")
             g3 == Do(g2, "Blip2Processor.from_pretrained", HubName, "")
             g4 == Do(g3, "Blip2ForConditionalGeneration.from_pretrained",
                      HubName, dtype)
         IN  [g4 EXCEPT !.parser_config =
                 Some([processor |-> "Blip2Processor", model |-> "Blip2Model",
                       device |-> device, dtype |-> dtype])]

\* lines 56-58
StoreOptions(f, keep_image, prompt) ==
    IF ~Running(f) THEN f
    ELSE LET s1 == SetAttr(f.self, "_parser_config", f.parser_config[1])
             s2 == SetAttr(s1, "_keep_image", keep_image)
             s3 == SetAttr(s2, "_prompt", prompt)
         IN  [f EXCEPT !.self = s3, !.status = "returned"]

__init__(parser_config, keep_image, prompt, inst, cudaAvail) ==
    LET f0 == [status |-> "running", error |-> "", msg |-> "",
               events |-> <<>>, parser_config |-> parser_config,
               self |-> NoAttrs]
        f1 == TryImport(f0, CheckOrder[1], inst)
        f2 == TryImport(f1, CheckOrder[2], inst)
        f3 == TryImport(f2, CheckOrder[3], inst)
        f4 == TryImport(f3, CheckOrder[4], inst)
        f5 == BuildDefault(f4, cudaAvail)
        f6 == IF NeedsDefault(parser_config) THEN f5 ELSE f0
    IN  StoreOptions(f6, keep_image, prompt)

(***************************************************************************)
(* load_data  (lines 60-94)                                                *)
(***************************************************************************)
NoImage == [src |-> "", mode |-> ""]
NoInputs == [image |-> NoImage, prompt |-> "", device |-> "", dtype |-> ""]

\* the frame of a call that has not executed anything yet
Frame0(obj, placement) ==
    [status |-> "running", error |-> "", msg |-> "", events |-> <<>>,
     self |-> obj, image |-> NoImage, converted |-> FALSE,
     image_str |-> None, model |-> "", processor |-> "", device |-> "",
     dtype |-> "", inputs |-> NoInputs, out |-> <<>>, text_str |-> <<>>,
     doc |-> None, modelDevice |-> placement]

\* lines 62 and 64: a plain import statement
Import(f, module, inst) ==
    IF ~Running(f) THEN f
    ELSE LET g == Do(f, "import", module, "")
         IN  IF module \in inst THEN g
             ELSE Raise(g, "ImportError", "No module named")

\* line 67: image = Image.open(file)
OpenImageLenient(f, file) ==
    IF ~Running(f) THEN f
    ELSE [Do(f, "Image.open", file, "")
            EXCEPT !.image = [src |-> file, mode |-> FileMode(file)]]
OpenImage(f, file) ==
    IF ~Running(f) THEN f
    ELSE LET g == Do(f, "Image.open", file, "")
         IN  IF ~Openable(file) THEN Raise(g, "OSError", "cannot identify image file")
             ELSE [g EXCEPT !.image = [src |-> file, mode |-> FileMode(file)]]

\* the result of image.convert(mode)
Convert(image, mode) == [image EXCEPT !.mode = mode]

\* lines 68-69: if image.mode != "RGB": image = image.convert("RGB")
NormalizeExceptGray(f, b) ==
    IF ~Running(f) \/ f.image.mode \in {"RGB", "L"} THEN f
    ELSE LET g == Do(f, "image.convert", f.image.mode, "RGB")
         IN  IF b.fails = "convert" THEN Raise(g, "OSError", "convert")
             ELSE [g EXCEPT !.image = Convert(f.image, "RGB"),
                           !.converted = TRUE]
Normalize(f, b) ==
    IF ~Running(f) \/ f.image.mode = "RGB" THEN f
    ELSE LET g == Do(f, "image.convert", f.image.mode, "RGB")
         IN  IF b.fails = "convert" THEN Raise(g, "OSError", "convert")
             ELSE [g EXCEPT !.image = Convert(f.image, "RGB"),
                           !.converted = TRUE]

\* img_2_b64: the base64 string of the encoded image; it depends on the
\* pixels (the file they come from) and on the mode of the image
img_2_b64(image) == <<"b64", image.src, image.mode>>

\* lines 72-74: image_str = None; if self._keep_image: image_str = img_2_b64(image)
KeepImageCaching(f, b) ==
    IF ~Running(f) THEN f
    ELSE IF ~f.self["_keep_image"] THEN [f EXCEPT !.image_str = None]
    ELSE LET g == Do(f, "img_2_b64", f.image.src, f.image.mode)
         IN  IF b.fails = "img_2_b64" THEN Raise(g, "OSError", "img_2_b64")
             ELSE [g EXCEPT !.image_str = Some(img_2_b64(f.image)),
                           !.self = SetAttr(f.self, "_image_str",
                                            Some(img_2_b64(f.image)))]
KeepImage(f, b) ==
    IF ~Running(f) THEN f
    ELSE IF ~f.self["_keep_image"] THEN [f EXCEPT !.image_str = None]
    ELSE LET g == Do(f, "img_2_b64", f.image.src, f.image.mode)
         IN  IF b.fails = "img_2_b64" THEN Raise(g, "OSError", "img_2_b64")
             ELSE [g EXCEPT !.image_str = Some(img_2_b64(f.image))]

\* the attribute load_data reads the configuration from (lines 77-81);
\* __init__ stores it in "_parser_config" (line 56)
ConfigAttr == "parser_config"

\* lines 77, 78, 80, 81: local = self.parser_config[key]
ConfigItem(f, key, local) ==
    IF ~Running(f) THEN f
    ELSE IF ~HasAttr(f.self, ConfigAttr)
         THEN Raise(f, "AttributeError",
                    "'ImageVisionLLMReader' object has no attribute 'parser_config'")
    ELSE IF key \notin DOMAIN f.self[ConfigAttr] THEN Raise(f, "KeyError", key)
    ELSE [f EXCEPT ![local] = f.self[ConfigAttr][key]]

\* line 82: model.to(device)
ModelTo(f, b) ==
    IF ~Running(f) THEN f
    ELSE LET g == Do(f, "model.to", f.device, "")
         IN  IF b.fails = "model.to" THEN Raise(g, "RuntimeError", "model.to")
             ELSE [g EXCEPT !.modelDevice = f.device]

\* line 86: inputs = processor(image, self._prompt, return_tensors="pt").to(device, dtype)
Preprocess(f, b) ==
    IF ~Running(f) THEN f
    ELSE LET g == Do(f, "processor", f.image.mode, f.self["_prompt"])
             h == Do(g, "inputs.to", f.device, f.dtype)
         IN  IF b.fails = "processor" THEN Raise(g, "RuntimeError", "processor")
             ELSE IF b.fails = "inputs.to" THEN Raise(h, "RuntimeError", "inputs.to")
             ELSE [h EXCEPT !.inputs = [image |-> f.image,
                                        prompt |-> f.self["_prompt"],
                                        device |-> f.device, dtype |-> f.dtype]]

\* line 88: out = model.generate(**inputs), with nothing but the inputs
Generate(f, b) ==
    IF ~Running(f) THEN f
    ELSE LET g == Do(f, "model.generate", "inputs", "")
         IN  IF b.fails = "generate" THEN Raise(g, "RuntimeError", "generate")
             ELSE [g EXCEPT !.out = b.out]

\* processor.decode(tokens, skip_special_tokens)
Decode(tokens, skip_special_tokens) ==
    SelectSeq(tokens, LAMBDA t : ~skip_special_tokens \/ t \notin SpecialTokens)

\* line 89: text_str = processor.decode(out[0], skip_special_tokens=True)
DecodeFirst(f, b) ==
    IF ~Running(f) THEN f
    ELSE IF f.out = <<>> THEN Raise(f, "IndexError", "out[0]")
    ELSE LET g == Do(f, "processor.decode", "out[0]", "skip_special_tokens")
         IN  IF b.fails = "decode" THEN Raise(g, "RuntimeError", "decode")
             ELSE [g EXCEPT !.text_str = Decode(f.out[1], TRUE)]

\* lines 91-94: return ImageDocument(text=text_str, image=image_str)
ReturnDocument(f) ==
    IF ~Running(f) THEN f
    ELSE [f EXCEPT !.status = "returned",
                   !.doc = Some([text |-> f.text_str, image |-> f.image_str])]

load_data(obj, file, inst, b, placement) ==
    LET f0 == Frame0(obj, placement)
        f1 == Import(f0, "PIL", inst)
        f2 == Import(f1, "gpt_index", inst)
        f3 == OpenImage(f2, file)
        f4 == Normalize(f3, b)
        f5 == KeepImage(f4, b)
        f6 == ConfigItem(f5, "model", "model")
        f7 == ConfigItem(f6, "processor", "processor")
        f8 == ConfigItem(f7, "device", "device")
        f9 == ConfigItem(f8, "dtype", "dtype")
        f10 == ModelTo(f9, b)
        f11 == Preprocess(f10, b)
        f12 == Generate(f11, b)
        f13 == DecodeFirst(f12, b)
    IN  ReturnDocument(f13)

(***************************************************************************)
(* The program: one reader is constructed, then load_data is called on it  *)
(***************************************************************************)
NoCall == [file |-> "", backend |-> [fails |-> "none", out |-> <<>>],
           frame |-> [Frame0(NoAttrs, "") EXCEPT !.status = "none"]]

NoCtor == [parser_config |-> None, keep_image |-> FALSE, prompt |-> "",
           status |-> "none", error |-> "", msg |-> "", events |-> <<>>]

Init ==
    /\ installed \in SUBSET Modules
    /\ cuda \in BOOLEAN
    /\ pc = "new"
    /\ self = NoAttrs
    /\ atConstruction = NoAttrs
    /\ ctor = NoCtor
    /\ modelDevice = ""
    /\ ncalls = 0
    /\ last = NoCall

\* reader = ImageVisionLLMReader(parser_config, keep_image, prompt)
Construct ==
    /\ pc = "new"
    /\ \E parser_config \in {None} \cup {Some(c) : c \in UserConfigs},
          keep_image \in BOOLEAN, prompt \in Prompts :
          LET f == __init__(parser_config, keep_image, prompt, installed, cuda)
          IN  /\ ctor' = [parser_config |-> parser_config,
                          keep_image |-> keep_image, prompt |-> prompt,
                          status |-> f.status, error |-> f.error,
                          msg |-> f.msg, events |-> f.events]
              /\ pc' = IF f.status = "returned" THEN "ready" ELSE "failed"
              /\ self' = IF f.status = "returned" THEN f.self ELSE NoAttrs
              /\ atConstruction' = self'
              \* a model is instantiated on the cpu
              /\ modelDevice' = IF f.status # "returned" THEN "" ELSE "cpu"
    /\ UNCHANGED <<installed, cuda, ncalls, last>>

\* reader.load_data(file)
LoadData ==
    /\ pc = "ready"
    /\ ncalls < MaxCalls
    /\ \E file \in Files, b \in Backends :
          LET f == load_data(self, file, installed, b, modelDevice)
          IN  /\ last' = [file |-> file, backend |-> b, frame |-> f]
              /\ self' = f.self
              /\ modelDevice' = f.modelDevice
    /\ ncalls' = ncalls + 1
    /\ UNCHANGED <<installed, cuda, pc, atConstruction, ctor>>

Next == Construct \/ LoadData

Spec == Init /\ [][Next]_vars

(***************************************************************************)
(* Properties                                                              *)
(***************************************************************************)
Ops(events) == {events[i].op : i \in DOMAIN events}

Dependencies == {"torch", "transformers", "sentencepiece", "PIL"}

DefaultSteps == {"import", "torch.cuda.is_available",
                 "Blip2Processor.from_pretrained",
                 "Blip2ForConditionalGeneration.from_pretrained"}

BackendSteps == {"model.to", "processor", "inputs.to", "model.generate",
                 "processor.decode"}

Constructed == ctor.status # "none"

Called == last.frame.status # "none"

\* the call got as far as Image.open
ReachedOpen == Called /\ {"PIL", "gpt_index"} \subseteq installed

\* C3: a reader constructed with a supplied parser_config is constructed
\* without any import check, device query or hub download, and its
\* _parser_config is the supplied value.
C3_SuppliedConfigSkipsDefaults ==
    (Constructed /\ ctor.parser_config # None) =>
        /\ ctor.events = <<>>
        /\ ctor.status = "returned"
        /\ pc = "ready"
        /\ atConstruction["_parser_config"] = ctor.parser_config[1]

C3_Witness ==
    /\ pc = "ready"
    /\ ctor.parser_config # None
    /\ installed = {}
    /\ self["_parser_config"].device = "cuda"

\* the first dependency of the check order torch, transformers,
\* sentencepiece, PIL that is not installed
FirstAbsent ==
    IF "torch" \notin installed THEN "torch"
    ELSE IF "transformers" \notin installed THEN "transformers"
    ELSE IF "sentencepiece" \notin installed THEN "sentencepiece"
    ELSE "PIL"

\* C4: with parser_config omitted and a dependency absent, construction
\* raises the ImportError of the first absent dependency in the order torch,
\* transformers, sentencepiece, PIL; the four messages differ; nothing is
\* downloaded or queried before the failure, no image is opened, and no
\* reader exists afterwards.
C4_MissingDependencyFailsFirst ==
    (Constructed /\ ctor.parser_config = None
       /\ Dependencies \ installed # {}) =>
        /\ ctor.status = "raised"
        /\ ctor.error = "ImportError"
        /\ ctor.msg = ImportMessage(FirstAbsent)
        /\ \A d \in Dependencies \ {FirstAbsent} : ctor.msg # ImportMessage(d)
        /\ Ops(ctor.events) = {"import"}
        /\ ctor.events[Len(ctor.events)].a = FirstAbsent
        /\ pc = "failed"
        /\ self = NoAttrs
        /\ ~Called

C4_Witness ==
    /\ pc = "failed"
    /\ ctor.parser_config = None
    /\ installed = {"torch", "gpt_index"}
    /\ ctor.msg = ImportMessage("transformers")
    /\ Len(ctor.events) = 2

\* C5: a load_data call on a path that does not open as an image raises and
\* returns no document, and performs no backend step; when the call reaches
\* Image.open, that is its last step and the error is the one of Image.open.
C5_UnopenableFailsBeforeBackend ==
    (Called /\ ~Openable(last.file)) =>
        /\ last.frame.status = "raised"
        /\ last.frame.doc = None
        /\ Ops(last.frame.events) \cap BackendSteps = {}
        /\ last.frame.modelDevice = "cpu"
        /\ ReachedOpen =>
             /\ last.frame.error = "OSError"
             /\ last.frame.events[Len(last.frame.events)].op = "Image.open"

C5_Witness ==
    /\ ReachedOpen
    /\ last.file = "notes.txt"
    /\ last.frame.status = "raised"
    /\ last.frame.error = "OSError"
    /\ self["_keep_image"]

\* C7: after any number of load_data calls the reader's attributes are the
\* ones __init__ stored: the same parser_config (supplied, or built once by
\* __init__), keep_image and prompt; load_data builds or downloads nothing.
C7_ReaderStateUnchanged ==
    pc = "ready" =>
        /\ self = atConstruction
        /\ DOMAIN self = {"_parser_config", "_keep_image", "_prompt"}
        /\ self["_keep_image"] = ctor.keep_image
        /\ self["_prompt"] = ctor.prompt
        /\ ctor.parser_config # None =>
             self["_parser_config"] = ctor.parser_config[1]
        /\ Called => Ops(last.frame.events) \cap
                       (DefaultSteps \ {"import"}) = {}

C7_Witness ==
    /\ ncalls >= 2
    /\ ctor.parser_config = None
    /\ self["_keep_image"]
    /\ last.frame.image_str # None
    /\ self = atConstruction

\* C10: once the image is opened and normalized, the image load_data holds
\* (the one given to img_2_b64 and to the processor) has mode RGB; it was
\* converted exactly when the opened image was not RGB.
C10_ImageIsRGB ==
    (ReachedOpen /\ Openable(last.file) /\ last.backend.fails # "convert") =>
        /\ last.frame.image.mode = "RGB"
        /\ last.frame.converted <=> FileMode(last.file) # "RGB"
        /\ ("image.convert" \in Ops(last.frame.events))
             <=> FileMode(last.file) # "RGB"
        /\ \A i \in DOMAIN last.frame.events :
             /\ last.frame.events[i].op = "img_2_b64"
                  => last.frame.events[i].b = "RGB"
             /\ last.frame.events[i].op = "processor"
                  => last.frame.events[i].a = "RGB"

C10_Witness ==
    /\ ReachedOpen
    /\ last.file = "gray.png"
    /\ last.frame.converted
    /\ "img_2_b64" \in Ops(last.frame.events)
    /\ last.frame.image_str = Some(<<"b64", "gray.png", "RGB">>)

\* a call in which the image opens as a colour image and no external call
\* raises
CleanColorCall ==
    /\ ReachedOpen
    /\ FileMode(last.file) = "RGB"
    /\ last.backend.fails = "none"

\* C2: a load_data call on a valid colour image, with a backend that does
\* not raise, returns a document whose text is the decoded first generated
\* sequence.
C2_ReturnsCaption ==
    CleanColorCall =>
        /\ last.frame.status = "returned"
        /\ last.frame.doc # None
        /\ last.frame.doc[1].text = Decode(last.backend.out[1], TRUE)

\* the steps the call is to perform, in order, on an image that opens
ExpectedSteps(file, keep_image, device) ==
    <<"import", "import", "Image.open">>
    \o (IF FileMode(file) # "RGB" THEN <<"image.convert">> ELSE <<>>)
    \o (IF keep_image THEN <<"img_2_b64">> ELSE <<>>)
    \o <<"model.to", "processor", "inputs.to", "model.generate",
         "processor.decode">>

\* C9: in a load_data call on an image that opens, with nothing raising, the
\* steps are open, convert to RGB (if needed), encode (if keep_image),
\* model.to(device), processor, generate, decode, in this order; the model
\* is moved to the configured device in every such call.
C9_FixedStepOrder ==
    (ReachedOpen /\ Openable(last.file) /\ last.backend.fails = "none") =>
        /\ [i \in DOMAIN last.frame.events |-> last.frame.events[i].op]
             = ExpectedSteps(last.file, self["_keep_image"],
                             self["_parser_config"].device)
        /\ \E i \in DOMAIN last.frame.events :
             /\ last.frame.events[i].op = "model.to"
             /\ last.frame.events[i].a = self["_parser_config"].device
        /\ last.frame.modelDevice = self["_parser_config"].device

\* Where C1, C6 and C8 stand: they are about the document a call returns
\* and about the processor, generate and decode raising.  Every call that
\* passes lines 62-74 stops at line 77, so no call returns a document and
\* no call performs a backend step.
EveryCallRaises ==
    Called =>
        /\ last.frame.status = "raised"
        /\ last.frame.doc = None
        /\ Ops(last.frame.events) \cap BackendSteps = {}
        /\ last.frame.error \in {"ImportError", "OSError", "AttributeError"}

====
